---------------------------- MODULE Spec2Model ----------------------------
(***************************************************************************)
(* A model of the GDScript and Godot scene front ends of emerge:           *)
(* src/emerge/languages/gdparser.py and godot_tscnparser.py.               *)
(*                                                                         *)
(* Text is modelled to the character: a string is a sequence of            *)
(* one-character strings, a token is a string, a token stream a sequence   *)
(* of tokens.  The pyparsing expressions of the source are operators on a  *)
(* string and a position that return the position after the match, or 0    *)
(* when the expression does not match (pyparsing's ParseException).        *)
(***************************************************************************)
EXTENDS Integers, Sequences, FiniteSets, TLC

VARIABLES
    src,        \* the files handed to the GDScript parser: file id -> content
    results,    \* GDParser._results / GodotTSCNParser._results, in dict order
    published,  \* every <<key, record id>> ever inserted into the table
    phase,      \* position of the analysis run or of the operation applied
    hits,       \* Statistics.Key.PARSING_HITS
    misses,     \* Statistics.Key.PARSING_MISSES
    error,      \* the exception that left the last operation, or NoError
    ent,        \* the Entity Record an entity-level operation works on
    known,      \* keys of the entity_names table passed to _detect_type_usages
    snap,       \* dependency lists seen after each run of an operation
    cursor,     \* index of the token a stepwise scan of ent reads next
    anchors,    \* the `class` anchors a stepwise scan has handled so far
    ref,        \* a root, two reference literals and the file that holds them
    resolved,   \* the dependency strings computed for ref
    scene       \* a scene file: its path and the bracketed objects in it

vars == <<src, results, published, phase, hits, misses, error, ent, known,
          snap, cursor, anchors, ref, resolved, scene>>

NoError == "none"

-----------------------------------------------------------------------------
(* Characters                                                              *)

Lower == {"a","b","c","d","e","f","g","h","i","j","k","l","m",
          "n","o","p","q","r","s","t","u","v","w","x","y","z"}
Upper == {"A","B","C","D","E","F","G","H","I","J","K","L","M",
          "N","O","P","Q","R","S","T","U","V","W","X","Y","Z"}
Digit == {"0","1","2","3","4","5","6","7","8","9"}
alphas == Lower \cup Upper
alphanums == alphas \cup Digit
\* pyparsing's default whitespace and Keyword.DEFAULT_KEYWORD_CHARS
White == {" ", "\t", "\n", "\r"}
identchars == alphanums \cup {"_", "$"}

-----------------------------------------------------------------------------
(* pyparsing primitives: position after the match, 0 for no match.  A     *)
(* primitive started at position 0 does not match, which is how a sequence *)
(* of expressions (pp.And) fails as soon as one of them fails.             *)

\* the first position at or after i that holds no character of cs
Span(s, i, cs) ==
    CHOOSE j \in i..(Len(s) + 1) :
        /\ \A k \in i..(j - 1) : s[k] \in cs
        /\ (j = Len(s) + 1 \/ s[j] \notin cs)

SkipWS(s, i) == Span(s, i, White)

\* where pp.Word(init, body) starts to match at i (after whitespace), or 0
WordStart(s, i, init) ==
    IF i = 0 \/ SkipWS(s, i) > Len(s) THEN 0
    ELSE IF s[SkipWS(s, i)] \in init THEN SkipWS(s, i) ELSE 0

SpanFrom(s, j, body) == IF j = 0 THEN 0 ELSE Span(s, j + 1, body)

WordEnd(s, i, init, body) == SpanFrom(s, WordStart(s, i, init), body)

\* the text pp.Word(init, body) captures at i, <<>> when it does not match
WordText(s, i, init, body) ==
    IF WordStart(s, i, init) = 0 THEN <<>>
    ELSE SubSeq(s, WordStart(s, i, init), WordEnd(s, i, init, body) - 1)

LiteralAt(s, j, lit) ==
    IF j + Len(lit) - 1 <= Len(s) /\ SubSeq(s, j, j + Len(lit) - 1) = lit
    THEN j + Len(lit) ELSE 0

Literal(s, i, lit) == IF i = 0 THEN 0 ELSE LiteralAt(s, SkipWS(s, i), lit)

\* pp.Keyword: the literal, with no keyword character before or after it
KeywordAt(s, j, kw) ==
    IF /\ LiteralAt(s, j, kw) # 0
       /\ (LiteralAt(s, j, kw) > Len(s) \/ s[LiteralAt(s, j, kw)] \notin identchars)
       /\ (j = 1 \/ s[j - 1] \notin identchars)
    THEN LiteralAt(s, j, kw) ELSE 0

Keyword(s, i, kw) == IF i = 0 THEN 0 ELSE KeywordAt(s, SkipWS(s, i), kw)

\* pp.Optional(e) at i: where e ends, i itself when e does not match
Optional(e, i) == IF e # 0 THEN e ELSE i

\* pp.Or([a, b]): the longer of the two matches
Or(a, b) == IF a >= b THEN a ELSE b

\* pp.NotAny(lit) at i: i when lit does not follow
NotAny(s, i, lit) == IF Literal(s, i, lit) # 0 THEN 0 ELSE i

\* pp.SkipTo(pp.FollowedBy(lit)): matches when lit follows some position at
\* or after i; nothing that comes after it in the grammars of this module
LeastOf(ps) == IF ps = {} THEN 0 ELSE CHOOSE j \in ps : \A k \in ps : j <= k

SkipToFollowedBy(s, i, lit) ==
    IF i = 0 THEN 0
    ELSE LeastOf({j \in i..(Len(s) + 1) : Literal(s, j, lit) # 0})

\* pp.QuotedString(quoteChar='"'): a quote, characters other than a quote
\* or a line break, a quote
QuoteChars == {"\"", "\n", "\r"}
NonQuoteEnd(s, j) == Span(s, j + 1, {s[k] : k \in 1..Len(s)} \ QuoteChars)

QuotedAt(s, j) ==
    IF j > Len(s) THEN 0
    ELSE IF s[j] # "\"" \/ NonQuoteEnd(s, j) > Len(s) THEN 0
    ELSE IF s[NonQuoteEnd(s, j)] = "\"" THEN NonQuoteEnd(s, j) + 1 ELSE 0

QuotedEnd(s, i) == IF i = 0 THEN 0 ELSE QuotedAt(s, SkipWS(s, i))

QuotedText(s, i) ==
    IF QuotedEnd(s, i) = 0 THEN <<>>
    ELSE SubSeq(s, SkipWS(s, i) + 1, QuotedEnd(s, i) - 2)

\* str.strip()
StripEnd(s) ==
    LeastOf({j \in 0..Len(s) : \A k \in (j + 1)..Len(s) : s[k] \in White})

Strip(s) == SubSeq(s, SkipWS(s, 1), StripEnd(s))

RECURSIVE Concat(_)
Concat(ss) == IF ss = <<>> THEN <<>> ELSE Head(ss) \o Concat(Tail(ss))

RECURSIVE JoinWith(_, _)
JoinWith(sep, ss) ==
    IF ss = <<>> THEN <<>>
    ELSE IF Len(ss) = 1 THEN ss[1]
    ELSE ss[1] \o sep \o JoinWith(sep, Tail(ss))

Contains(seq, x) == \E k \in 1..Len(seq) : seq[k] = x
Count(seq, x) == Cardinality({k \in 1..Len(seq) : seq[k] = x})

-----------------------------------------------------------------------------
(* GDParsingKeyword and the tokens of the grammars                         *)

kwClass == <<"c", "l", "a", "s", "s">>
kwPackage == <<"c", "l", "a", "s", "s", "_", "n", "a", "m", "e">>
kwExtends == <<"e", "x", "t", "e", "n", "d", "s">>
kwFunc == <<"f", "u", "n", "c">>
kwEnum == <<"e", "n", "u", "m">>
kwVar == <<"v", "a", "r">>
kwConst == <<"c", "o", "n", "s", "t">>
kwLoad == <<"l", "o", "a", "d">>
kwPreload == <<"p", "r", "e", "l", "o", "a", "d">>
OPEN_SCOPE == <<":">>
DOT == <<".">>
tArrow == <<"-", ">">>
tAssign == <<"=">>
tLParen == <<"(">>
tRParen == <<")">>
tQuote == <<"\"">>
tNewline == <<"\n">>
tLBrack == <<"[">>
tRBrack == <<"]">>

-----------------------------------------------------------------------------
(* ParsingMixin: the cursor over a token stream                            *)

\* _gen_word_read_ahead yields (index, token, every token after it)
Following(tokens, i) == SubSeq(tokens, i + 1, Len(tokens))

\* create_read_ahead_string: the anchor and what follows, joined by blanks
ReadAhead(tokens, i) == JoinWith(<<" ">>, SubSeq(tokens, i, Len(tokens)))


-----------------------------------------------------------------------------
(* pathlib.PurePosixPath: a root ("", "/" or "//" as 0, 1, 2) and parts     *)

RECURSIVE SplitOn(_, _)
SplitOn(s, c) ==
    LET hits_ == {k \in 1..Len(s) : s[k] = c}
    IN  IF hits_ = {} THEN <<s>>
        ELSE LET k == CHOOSE h \in hits_ : \A g \in hits_ : h <= g
             IN  <<SubSeq(s, 1, k - 1)>> \o SplitOn(SubSeq(s, k + 1, Len(s)), c)

RECURSIVE DropAll(_, _)
DropAll(seq, xs) ==
    IF seq = <<>> THEN <<>>
    ELSE IF Head(seq) \in xs THEN DropAll(Tail(seq), xs)
    ELSE <<Head(seq)>> \o DropAll(Tail(seq), xs)

\* Path(s): empty and "." components are dropped, ".." is kept; exactly two
\* leading slashes are a root of their own
Path(s) ==
    LET lead == Span(s, 1, {"/"}) - 1
    IN  [root |-> IF lead = 0 THEN 0 ELSE IF lead = 2 THEN 2 ELSE 1,
         parts |-> DropAll(SplitOn(s, "/"), {<<>>, DOT})]

\* a / b: an anchored right operand replaces the left one
PathJoin(a, b) ==
    IF b.root # 0 THEN b ELSE [root |-> a.root, parts |-> a.parts \o b.parts]

PathParent(a) ==
    IF a.parts = <<>> THEN a
    ELSE [root |-> a.root, parts |-> SubSeq(a.parts, 1, Len(a.parts) - 1)]

\* a.relative_to(b) raises ValueError unless b is a prefix of a
IsRelativeTo(a, b) ==
    /\ a.root = b.root
    /\ Len(b.parts) <= Len(a.parts)
    /\ SubSeq(a.parts, 1, Len(b.parts)) = b.parts

RelativeTo(a, b) ==
    [root |-> 0, parts |-> SubSeq(a.parts, Len(b.parts) + 1, Len(a.parts))]

\* str(path)
PathStr(a) ==
    IF a.root = 0 /\ a.parts = <<>> THEN DOT
    ELSE (IF a.root = 0 THEN <<>> ELSE IF a.root = 1 THEN <<"/">> ELSE <<"/", "/">>)
         \o JoinWith(<<"/">>, a.parts)

\* FileResult.relative_analysis_path: the directory of the file's path
relative_analysis_path(full_file_path) == PathParent(Path(full_file_path))

\* the two resolution rules shared by _parse_loads and _extract_objects:
\* [ok |-> FALSE] stands for the ValueError of relative_to
ResolveRootRelativeBaseIsRoot(source_directory) == Path(source_directory)

ResolveRootRelativeBase(source_directory) == PathParent(Path(source_directory))

ResolveReference(hasRes, literal, full_file_path, source_directory) ==
    IF ~hasRes
    THEN [ok |-> TRUE,
          path |-> PathStr(PathJoin(relative_analysis_path(full_file_path),
                                    Path(literal)))]
    ELSE LET abs_load_path == PathJoin(Path(source_directory), Path(literal))
             base == ResolveRootRelativeBase(source_directory)
         IN  IF IsRelativeTo(abs_load_path, base)
             THEN [ok |-> TRUE, path |-> PathStr(RelativeTo(abs_load_path, base))]
             ELSE [ok |-> FALSE, path |-> <<>>]

pathchars == alphanums \cup {"-", "_", "/", "."}

-----------------------------------------------------------------------------
(* GDParser._parse_loads                                                   *)

\* preload_or_load on a read-ahead string.  LoadOpen: the position after
\* Or([load, preload]) + "(" + '"' + NotAny("user : //")
LoadOpen(s) ==
    NotAny(s, Literal(s, Literal(s, Or(Keyword(s, 1, kwLoad),
                                       Keyword(s, 1, kwPreload)),
                                 tLParen), tQuote),
           <<"u", "s", "e", "r", " ", ":", " ", "/", "/">>)

\* Optional(Literal("res : //")).setResultsName("res")
LoadHasRes(s) == Literal(s, LoadOpen(s), <<"r", "e", "s", " ", ":", " ", "/", "/">>) # 0
LoadPathAt(s) == Optional(Literal(s, LoadOpen(s), <<"r", "e", "s", " ", ":", " ", "/", "/">>), LoadOpen(s))

LoadEnd(s) ==
    Literal(s, Literal(s, WordEnd(s, LoadPathAt(s), pathchars, pathchars), tQuote),
            tRParen)

LoadGrammar(s) ==
    IF LoadEnd(s) = 0 THEN [ok |-> FALSE, res |-> FALSE, load_path |-> <<>>]
    ELSE [ok |-> TRUE, res |-> LoadHasRes(s),
          load_path |-> WordText(s, LoadPathAt(s), pathchars, pathchars)]

\* lines 172-177 on acc = [deps, error]: the resolved path is appended; the
\* ValueError of relative_to leaves the operation
AddResolved(acc, r) ==
    IF r.ok THEN [acc EXCEPT !.deps = Append(acc.deps, r.path)]
    ELSE [acc EXCEPT !.error = "ValueError"]

AddLoad(acc, load_result, full_file_path, source_directory) ==
    IF ~load_result.ok THEN acc
    ELSE AddResolved(acc, ResolveReference(load_result.res, load_result.load_path,
                                           full_file_path, source_directory))

\* one iteration of the for loop, at token i
LoadAt(tokens, i, acc, full_file_path, source_directory) ==
    IF tokens[i] \notin {kwLoad, kwPreload} THEN acc
    ELSE AddLoad(acc, LoadGrammar(ReadAhead(tokens, i)), full_file_path,
                 source_directory)

RECURSIVE ParseLoadsFrom(_, _, _, _, _)
ParseLoadsFrom(tokens, i, acc, full_file_path, source_directory) ==
    IF i > Len(tokens) \/ acc.error # NoError THEN acc
    ELSE ParseLoadsFrom(tokens, i + 1,
                        LoadAt(tokens, i, acc, full_file_path, source_directory),
                        full_file_path, source_directory)

_parse_loads(tokens, full_file_path, source_directory) ==
    ParseLoadsFrom(tokens, 1, [deps |-> <<>>, error |-> NoError], full_file_path,
                   source_directory)

-----------------------------------------------------------------------------
(* GDParser._detect_type_usages                                            *)

identInit == alphas \cup {"_"}
identBody == alphanums \cup {"_"}
enumBody == Upper \cup Digit \cup {"_"}

\* enum_value = Word(".", alphanums.upper() + "_") + StringEnd()
EnumValueAt(t, p) ==
    LET e == WordEnd(t, p, {"."}, enumBody)
    IN  e # 0 /\ SkipWS(t, e) > Len(t)

\* ZeroOrMore(~enum_value + Word(".") + type_identifier) from position p
RECURSIVE ChainRest(_, _)
ChainRest(t, p) ==
    LET d == WordEnd(t, p, {"."}, {"."})
        e == IF d = 0 THEN 0 ELSE WordEnd(t, d, identInit, identBody)
    IN  IF EnumValueAt(t, p) \/ e = 0 THEN <<>>
        ELSE <<WordText(t, p, {"."}, {"."}), WordText(t, d, identInit, identBody)>>
             \o ChainRest(t, e)

\* type_chain.parseString(t)["type"]: the matched tokens, <<>> for no match
type_chain(t) ==
    LET e == WordEnd(t, 1, identInit, identBody)
    IN  IF e = 0 THEN <<>>
        ELSE <<WordText(t, 1, identInit, identBody)>> \o ChainRest(t, e)

\* AddTypeUsage without the membership test of lines 207 and 226
AddTypeUsageUntested(deps, type_name, entity_names, entity_name) ==
    IF type_name \in entity_names /\ type_name # entity_name
    THEN Append(deps, type_name) ELSE deps

\* lines 205-208 and 224-227: append once, and never the entity's own name
AddTypeUsage(deps, type_name, entity_names, entity_name) ==
    IF /\ type_name \in entity_names
       /\ type_name # entity_name
       /\ ~Contains(deps, type_name)
    THEN Append(deps, type_name) ELSE deps

\* the for loop over iter(scanned_tokens) from token i on: [deps, error]
RECURSIVE DetectFrom(_, _, _, _, _)
DetectFrom(tokens, i, deps, entity_names, entity_name) ==
    IF i > Len(tokens) THEN [deps |-> deps, error |-> NoError]
    ELSE IF tokens[i] \in {OPEN_SCOPE, tArrow}
    THEN IF i + 1 > Len(tokens) THEN [deps |-> deps, error |-> NoError]
         ELSE LET next_token == tokens[i + 1]
                  result == type_chain(next_token)
              IN  IF next_token # <<>> /\ next_token # tNewline /\ result # <<>>
                  THEN DetectFrom(tokens, i + 2,
                           AddTypeUsage(deps, Concat(result), entity_names, entity_name),
                           entity_names, entity_name)
                  ELSE DetectFrom(tokens, i + 2, deps, entity_names, entity_name)
    ELSE IF tokens[i] = tAssign
    THEN IF i + 1 > Len(tokens)
         THEN [deps |-> deps, error |-> "AttributeError"]   \* parseString(None)
         ELSE LET result == type_chain(tokens[i + 1])
              IN  IF result = <<>>
                  THEN DetectFrom(tokens, i + 2, deps, entity_names, entity_name)
                  ELSE LET call == i + 2 <= Len(tokens) /\ tokens[i + 2] = tLParen
                           type_name ==
                               IF call
                               THEN Concat(SubSeq(result, 1, Len(result) - 2))
                               ELSE Concat(result)
                       IN  DetectFrom(tokens, i + 3,
                               AddTypeUsage(deps, type_name, entity_names, entity_name),
                               entity_names, entity_name)
    ELSE DetectFrom(tokens, i + 1, deps, entity_names, entity_name)

_detect_type_usages(tokens, deps, entity_names, entity_name) ==
    DetectFrom(tokens, 1, deps, entity_names, entity_name)


-----------------------------------------------------------------------------
(* GDParser._add_inheritance_to_entity_result                              *)

\* expression_to_match on a read-ahead string:
\* Keyword(class) + Word(alphanums) + Optional(Keyword(extends) + Word(alphanums))
\* + SkipTo(FollowedBy(":")); inherited is <<>> without an extends clause
ClassNameEnd(s) == WordEnd(s, Keyword(s, 1, kwClass), alphanums, alphanums)

ExtendsNameEnd(s, i) == WordEnd(s, Keyword(s, i, kwExtends), alphanums, alphanums)

ClassHeaderEnd(s) ==
    SkipToFollowedBy(s, Optional(ExtendsNameEnd(s, ClassNameEnd(s)), ClassNameEnd(s)),
                     OPEN_SCOPE)

ClassHeader(s) ==
    IF ClassHeaderEnd(s) = 0
    THEN [ok |-> FALSE, entity_name |-> <<>>, inherited |-> <<>>]
    ELSE [ok |-> TRUE,
          entity_name |-> WordText(s, Keyword(s, 1, kwClass), alphanums, alphanums),
          inherited |-> WordText(s, Keyword(s, ClassNameEnd(s), kwExtends),
                                 alphanums, alphanums)]

\* lines 307 and 296: which parse outcome counts as a hit, which as a miss
CountsAsHit(r) == r.ok /\ r.inherited # <<>>
CountsAsMiss(r) == ~r.ok

\* lines 293-311 on st = [inh, hits, misses], r the outcome of the parse
CountAnchor(st, r) ==
    [inh |-> IF r.ok /\ r.inherited # <<>> THEN Append(st.inh, r.inherited)
             ELSE st.inh,
     hits |-> IF CountsAsHit(r) THEN st.hits + 1 ELSE st.hits,
     misses |-> IF CountsAsMiss(r) THEN st.misses + 1 ELSE st.misses]

\* one iteration of the for loop, at token i
InheritanceAt(tokens, i, st) ==
    IF tokens[i] # kwClass THEN st
    ELSE CountAnchor(st, ClassHeader(ReadAhead(tokens, i)))

RECURSIVE InheritanceFrom(_, _, _)
InheritanceFrom(tokens, i, st) ==
    IF i > Len(tokens) THEN st
    ELSE InheritanceFrom(tokens, i + 1, InheritanceAt(tokens, i, st))

_add_inheritance_to_entity_result(tokens, st) == InheritanceFrom(tokens, 1, st)

-----------------------------------------------------------------------------
(* GDParser.create_unique_entity_name                                      *)

create_unique_entity_name(module_name, entity_name) ==
    IF module_name # <<>> THEN module_name \o DOT \o entity_name
    ELSE entity_name

-----------------------------------------------------------------------------
(* GDParser._add_class_name_to_result                                      *)

BodyStart == {kwEnum, kwFunc, kwVar, kwConst, kwClass}

\* Keyword(kw) + Word(alphanums) on a read-ahead string: the name, or <<>>
KeywordName(s, kw) == WordText(s, Keyword(s, 1, kw), alphanums, alphanums)

\* lines 121-126 and 133-137 on st = [module_name, deps, class_name, extends,
\* stop]; stop is the index of the token at which the loop broke off, 0 while
\* it runs, Len(tokens) + 1 when it ran to the end
FoundClassName(st, i, name) ==
    [st EXCEPT !.module_name = name, !.class_name = name,
               !.stop = IF st.extends # <<>> THEN i ELSE 0]

FoundExtends(st, i, name) ==
    [st EXCEPT !.deps = Append(st.deps, name), !.extends = name,
               !.stop = IF st.class_name # <<>> THEN i ELSE 0]

\* one iteration of the for loop, at token i
IdentityAt(tokens, i, st) ==
    IF tokens[i] = kwPackage
    THEN IF KeywordName(ReadAhead(tokens, i), kwPackage) # <<>>
         THEN FoundClassName(st, i, KeywordName(ReadAhead(tokens, i), kwPackage))
         ELSE st
    ELSE IF tokens[i] = kwExtends
    THEN IF KeywordName(ReadAhead(tokens, i), kwExtends) # <<>>
         THEN FoundExtends(st, i, KeywordName(ReadAhead(tokens, i), kwExtends))
         ELSE st
    ELSE IF tokens[i] \in BodyStart THEN [st EXCEPT !.stop = i]
    ELSE st

RECURSIVE IdentityFrom(_, _, _)
IdentityFrom(tokens, i, st) ==
    IF st.stop # 0 THEN st
    ELSE IF i > Len(tokens) THEN [st EXCEPT !.stop = i]
    ELSE IdentityFrom(tokens, i + 1, IdentityAt(tokens, i, st))

IdentityScan(tokens) ==
    IdentityFrom(tokens, 1, [module_name |-> <<>>, deps |-> <<>>,
                             class_name |-> <<>>, extends |-> <<>>, stop |-> 0])

\* line 142 without its second conjunct
PublishesFileEntityOnClassName(scan) == scan.class_name # <<>>

\* line 142: when the file-level Entity Record is created
PublishesFileEntity(scan) == scan.class_name # <<>> /\ scan.extends # <<>>

\* line 154: the unique name the file-level Entity Record is given
FileEntityUniqueName(class_name, module_name) == class_name


-----------------------------------------------------------------------------
(* GodotTSCNParser._extract_objects and _add_dependencies_to_result        *)

kwExtResource == <<"e", "x", "t", "_", "r", "e", "s", "o", "u", "r", "c", "e">>
kwSubResource == <<"s", "u", "b", "_", "r", "e", "s", "o", "u", "r", "c", "e">>
kwNode == <<"n", "o", "d", "e">>
kwType == <<"t", "y", "p", "e">>
kwPath == <<"p", "a", "t", "h">>
kwId == <<"i", "d">>
kwUid == <<"u", "i", "d">>
SCRIPT_TYPE == <<"S", "c", "r", "i", "p", "t">>
PACKED_SCENE_TYPE == <<"P", "a", "c", "k", "e", "d", "S", "c", "e", "n", "e">>

\* grammar on a read-ahead string.  ExtTypeAt: the position after
\* "[" + Keyword(ext_resource) + Keyword(type) + "="
ExtTypeAt(s) ==
    Literal(s, Keyword(s, Keyword(s, Literal(s, 1, tLBrack), kwExtResource), kwType),
            tAssign)

\* Optional("uid" + "=" + QuotedString) at i
UidClause(s, i) ==
    Optional(QuotedEnd(s, Literal(s, Literal(s, i, kwUid), tAssign)), i)

\* the position after Keyword(path) + "=" + '"'
ExtPathOpen(s) ==
    Literal(s, Literal(s, Keyword(s, UidClause(s, QuotedEnd(s, ExtTypeAt(s))), kwPath),
                       tAssign), tQuote)

ExtHasRes(s) == Literal(s, ExtPathOpen(s), <<"r", "e", "s", " ", ":", " ", "/", "/">>) # 0
ExtPathAt(s) == Optional(Literal(s, ExtPathOpen(s), <<"r", "e", "s", " ", ":", " ", "/", "/">>), ExtPathOpen(s))

\* the position after the path + '"' + Keyword(id) + "="
ExtIdAt(s) ==
    Literal(s, Keyword(s, Literal(s, WordEnd(s, ExtPathAt(s), pathchars, pathchars),
                                  tQuote), kwId), tAssign)

ExtEnd(s) == Literal(s, QuotedEnd(s, ExtIdAt(s)), tRBrack)

\* [ok, type, res, path, id]: the named results after v.strip()
ExtResourceGrammar(s) ==
    IF ExtEnd(s) = 0
    THEN [ok |-> FALSE, type |-> <<>>, res |-> FALSE, path |-> <<>>, id |-> <<>>]
    ELSE [ok |-> TRUE, type |-> Strip(QuotedText(s, ExtTypeAt(s))),
          res |-> ExtHasRes(s),
          path |-> Strip(WordText(s, ExtPathAt(s), pathchars, pathchars)),
          id |-> Strip(QuotedText(s, ExtIdAt(s)))]

\* lines 166-171 on acc = [objects, error]; an object is a TSCNObject of type
\* EXT_RESOURCE, reduced to its path, resource_type and id
AddObject(acc, g, r) ==
    IF r.ok
    THEN [acc EXCEPT !.objects = Append(acc.objects,
                         [path |-> r.path, resource_type |-> g.type, id |-> g.id])]
    ELSE [acc EXCEPT !.error = "ValueError"]

AddExtResource(acc, g, full_file_path, source_directory) ==
    IF ~g.ok THEN acc
    ELSE AddObject(acc, g, ResolveReference(g.res, g.path, full_file_path,
                                            source_directory))

\* one iteration of the for loop, at token i; following[0] raises IndexError
\* when "[" is the last token
ExtractAt(tokens, i, acc, full_file_path, source_directory) ==
    IF tokens[i] # tLBrack THEN acc
    ELSE IF Following(tokens, i) = <<>> THEN [acc EXCEPT !.error = "IndexError"]
    ELSE IF tokens[i + 1] # kwExtResource THEN acc
    ELSE AddExtResource(acc, ExtResourceGrammar(ReadAhead(tokens, i)),
                        full_file_path, source_directory)

RECURSIVE ExtractFrom(_, _, _, _, _)
ExtractFrom(tokens, i, acc, full_file_path, source_directory) ==
    IF i > Len(tokens) \/ acc.error # NoError THEN acc
    ELSE ExtractFrom(tokens, i + 1,
                     ExtractAt(tokens, i, acc, full_file_path, source_directory),
                     full_file_path, source_directory)

_extract_objects(tokens, full_file_path, source_directory) ==
    ExtractFrom(tokens, 1, [objects |-> <<>>, error |-> NoError], full_file_path,
                source_directory)

\* line 182 without the test of resource_type
IsDependencyTypeAny(resource_type) == TRUE

\* line 182: which objects become dependencies of the File Record
IsDependencyType(resource_type) ==
    resource_type \in {SCRIPT_TYPE, PACKED_SCENE_TYPE}

RECURSIVE _add_dependencies_to_result(_, _)
_add_dependencies_to_result(deps, objects) ==
    IF objects = <<>> THEN deps
    ELSE _add_dependencies_to_result(
             IF IsDependencyType(Head(objects).resource_type)
             THEN Append(deps, Head(objects).path) ELSE deps,
             Tail(objects))


-----------------------------------------------------------------------------
(* The result table: a Python dict, kept in insertion order                *)

\* Every record has the same fields.  rid names the object: <<file id, 0>>
\* is the File Record of a file, <<file id, 1>> its file-level Entity Record,
\* <<file id, 1 + j>> the Entity Record of its j-th scope.
FileRecord(f, full_file_path, tokens, scan) ==
    [kind |-> "file", rid |-> <<f, 0>>, unique_name |-> full_file_path,
     module_name |-> scan.module_name, entity_name |-> <<>>,
     scanned_tokens |-> tokens, deps |-> scan.deps, inh |-> <<>>]

\* lines 143-159
FileEntityRecord(f, tokens, scan, loads) ==
    [kind |-> "entity", rid |-> <<f, 1>>,
     unique_name |-> FileEntityUniqueName(scan.class_name, scan.module_name),
     module_name |-> scan.module_name, entity_name |-> scan.class_name,
     scanned_tokens |-> tokens, deps |-> loads, inh |-> <<scan.extends>>]

Keys(table) == {table[k].unique_name : k \in 1..Len(table)}
IndexOf(table, key) == CHOOSE k \in 1..Len(table) : table[k].unique_name = key
Lookup(table, key) == table[IndexOf(table, key)]

\* self._results[key] = record: a bound key keeps its place and gets the
\* new record, a new key goes to the end
Insert(table, rec) ==
    IF rec.unique_name \in Keys(table)
    THEN [table EXCEPT ![IndexOf(table, rec.unique_name)] = rec]
    ELSE Append(table, rec)

Published(rec) == <<rec.unique_name, rec.rid>>

-----------------------------------------------------------------------------
(* The files of the analysed project                                       *)

source_directory == <<"/", "h", "o", "m", "e", "/", "u", "/", "p", "r", "o", "j">>

tFoo == <<"F", "o", "o">>
tBar == <<"B", "a", "r">>
tInner == <<"I", "n", "n", "e", "r">>
tBase == <<"B", "a", "s", "e">>
tNode == <<"N", "o", "d", "e">>
tFooInner == <<"F", "o", "o", ".", "I", "n", "n", "e", "r">>
tBarNew == <<"B", "a", "r", ".", "n", "e", "w">>
tT == <<"t">>

\* what stands before the first class of a file
Preambles ==
    { <<>>,
      <<kwPackage, tFoo, tNewline, kwExtends, tBar, tNewline>>,
      <<kwPackage, tBar, tNewline>>,
      <<kwExtends, tNode, kwPackage, tBar>>,
      <<kwPackage, tFoo, kwExtends, tInner>>,
      <<kwExtends, tNode, tNewline>> }

ScopeInnerUsesOwnKey ==
    <<kwClass, tInner, OPEN_SCOPE, tNewline, kwVar, tT, OPEN_SCOPE, tFooInner, tNewline>>
ScopeInnerExtendsBase == <<kwClass, tInner, kwExtends, tBase, OPEN_SCOPE, tNewline>>
ScopeBaseUsesBar ==
    <<kwClass, tBase, OPEN_SCOPE, kwVar, tT, OPEN_SCOPE, tFoo, tAssign, tBarNew,
      tLParen, tRParen>>

\* the class scopes of a file, in source order
ScopeLists ==
    { <<>>,
      <<ScopeInnerUsesOwnKey>>,
      <<ScopeInnerExtendsBase, ScopeBaseUsesBar>>,
      <<ScopeBaseUsesBar>> }

Contents == [pre : Preambles, scopes : ScopeLists]

NFiles == 2
FileIds == 1..NFiles

\* full_file_path of a file, relative to the parent of source_directory
FilePath(f) ==
    IF f = 1 THEN <<"p", "r", "o", "j", "/", "a", ".", "g", "d">>
    ELSE IF f = 2 THEN <<"p", "r", "o", "j", "/", "s", "u", "b", "/", "b", ".", "g", "d">>
    ELSE <<"p", "r", "o", "j", "/", "s", "u", "b", "/", "c", ".", "g", "d">>

\* the Token Stream of a file: its preamble, then its class scopes
FileTokens(c) == c.pre \o Concat(c.scopes)

\* the entities the scope splitter (FileResult.generate_entity_results_from_scopes)
\* hands back: one per class scope whose header names an entity
ScopeEntityName(scope) == KeywordName(JoinWith(<<" ">>, scope), kwClass)

RECURSIVE ScopeEntities(_, _, _, _)
ScopeEntities(f, module_name, scopes, j) ==
    IF j > Len(scopes) THEN <<>>
    ELSE (IF ScopeEntityName(scopes[j]) = <<>> THEN <<>>
          ELSE << [kind |-> "entity", rid |-> <<f, 1 + j>>,
                   unique_name |-> ScopeEntityName(scopes[j]),
                   module_name |-> module_name,
                   entity_name |-> ScopeEntityName(scopes[j]),
                   scanned_tokens |-> scopes[j], deps |-> <<>>, inh |-> <<>>] >>)
         \o ScopeEntities(f, module_name, scopes, j + 1)


-----------------------------------------------------------------------------
(* GDParser.generate_file_result_from_analysis                             *)

\* st = [table, published, hits, misses, error].  self._results[key] = rec
Publish(st, rec) ==
    [st EXCEPT !.table = Insert(st.table, rec),
               !.published = st.published \cup {Published(rec)}]

\* lines 142-160: the file-level entity; the ValueError of _parse_loads
\* leaves the handler before anything is inserted
PublishFileEntity(st, f, tokens, scan, loads) ==
    IF ~PublishesFileEntity(scan) THEN st
    ELSE IF loads.error # NoError THEN [st EXCEPT !.error = loads.error]
    ELSE Publish(st, FileEntityRecord(f, tokens, scan, loads.deps))

\* line 106
PublishFile(st, f, tokens, scan) ==
    IF st.error # NoError THEN st
    ELSE Publish(st, FileRecord(f, FilePath(f), tokens, scan))

FileResult(st, f, tokens, scan) ==
    PublishFile(PublishFileEntity(st, f, tokens, scan,
                                  _parse_loads(tokens, FilePath(f), source_directory)),
                f, tokens, scan)

generate_file_result_from_analysis(st, f, content) ==
    FileResult(st, f, FileTokens(content), IdentityScan(FileTokens(content)))

-----------------------------------------------------------------------------
(* GDParser.generate_entity_results_from_analysis                          *)

\* lines 259-260 for one entity: its parents and its unique name;
\* acc = [ents, hits, misses], r the outcome of _add_inheritance_to_entity_result
Named(acc, e, r) ==
    [ents |-> Append(acc.ents,
                  [e EXCEPT !.inh = r.inh,
                            !.unique_name = create_unique_entity_name(e.module_name,
                                                                      e.entity_name)]),
     hits |-> r.hits, misses |-> r.misses]

NameEntity(acc, e) ==
    Named(acc, e, _add_inheritance_to_entity_result(e.scanned_tokens,
                      [inh |-> e.inh, hits |-> acc.hits, misses |-> acc.misses]))

\* lines 258-260: every entity of one file
RECURSIVE NameEntities(_, _, _)
NameEntities(entity_results, j, acc) ==
    IF j > Len(entity_results) THEN acc
    ELSE NameEntities(entity_results, j + 1, NameEntity(acc, entity_results[j]))

\* line 261: entity_names maps a local name to the last entity that has it
LocalNames(entity_results) ==
    {entity_results[k].entity_name : k \in 1..Len(entity_results)}

LastOf(ks) == CHOOSE k \in ks : \A h \in ks : h <= k

EntityByLocalName(entity_results, name) ==
    entity_results[LastOf({k \in 1..Len(entity_results) :
                              entity_results[k].entity_name = name})]

\* lines 263-265: a parent that is a local name of the file becomes that
\* entity's unique name
LinkParent(dependency, entity_results) ==
    IF dependency \in LocalNames(entity_results)
    THEN EntityByLocalName(entity_results, dependency).unique_name
    ELSE dependency

LinkInheritance(inh, entity_results) ==
    [i \in 1..Len(inh) |-> LinkParent(inh[i], entity_results)]

Linked(e, entity_results) ==
    [e EXCEPT !.inh = LinkInheritance(e.inh, entity_results)]

\* lines 262-266 for the entities of one file
RECURSIVE LinkAndInsert(_, _, _)
LinkAndInsert(st, entity_results, j) ==
    IF j > Len(entity_results) THEN st
    ELSE LinkAndInsert(Publish(st, Linked(entity_results[j], entity_results)),
                       entity_results, j + 1)

\* lines 255-266 for one File Record, named the outcome of lines 258-260
InsertNamed(st, named) ==
    LinkAndInsert([st EXCEPT !.hits = named.hits, !.misses = named.misses],
                  named.ents, 1)

EntitiesOfFile(st, result, scopes) ==
    InsertNamed(st, NameEntities(
                        ScopeEntities(result.rid[1], result.module_name, scopes, 1),
                        1, [ents |-> <<>>, hits |-> st.hits, misses |-> st.misses]))

\* lines 239-266: the loop over the File Records found at line 236
RECURSIVE EntitiesOfFiles(_, _, _, _)
EntitiesOfFiles(st, filtered_results, k, contents) ==
    IF k > Len(filtered_results) THEN st
    ELSE EntitiesOfFiles(
             EntitiesOfFile(st, filtered_results[k],
                            contents[filtered_results[k].rid[1]].scopes),
             filtered_results, k + 1, contents)

\* lines 267-273: the type usage pass over every Entity Record of the table
IsEntity(r) == r.kind = "entity"
IsFile(r) == r.kind = "file"

EntityKeys(table) ==
    {table[k].unique_name : k \in {h \in 1..Len(table) : IsEntity(table[h])}}

TypeUsed(st, k, r) ==
    [st EXCEPT !.table[k].deps = r.deps, !.error = r.error]

TypeUsageAt(st, entity_names, k) ==
    IF ~IsEntity(st.table[k]) THEN st
    ELSE TypeUsed(st, k, _detect_type_usages(st.table[k].scanned_tokens,
                                             st.table[k].deps, entity_names,
                                             st.table[k].entity_name))

RECURSIVE TypeUsagePass(_, _, _)
TypeUsagePass(st, entity_names, k) ==
    IF k > Len(st.table) \/ st.error # NoError THEN st
    ELSE TypeUsagePass(TypeUsageAt(st, entity_names, k), entity_names, k + 1)

TypeUsages(st) == TypeUsagePass(st, EntityKeys(st.table), 1)

generate_entity_results_from_analysis(st, contents) ==
    TypeUsages(EntitiesOfFiles(st, SelectSeq(st.table, IsFile), 1, contents))

-----------------------------------------------------------------------------
(* The analysis run: files are extracted in any order, then the entity     *)
(* results are generated                                                   *)

Unused == <<>>

RunState == [table |-> results, published |-> published, hits |-> hits,
             misses |-> misses, error |-> error]

SetRunState(st) ==
    /\ results' = st.table
    /\ published' = st.published
    /\ hits' = st.hits
    /\ misses' = st.misses
    /\ error' = st.error

UnitVars == <<ent, known, snap, cursor, anchors, ref, resolved, scene>>

Extracted == {results[k].rid[1] : k \in 1..Len(results)}
                 \cup {p[2][1] : p \in published}

Init ==
    /\ src \in [FileIds -> Contents]
    /\ results = <<>>
    /\ published = {}
    /\ phase = "files"
    /\ hits = 0
    /\ misses = 0
    /\ error = NoError
    /\ ent = Unused /\ known = {} /\ snap = <<>> /\ cursor = 0 /\ anchors = <<>>
    /\ ref = Unused /\ resolved = Unused /\ scene = <<>>

GenerateFileResult(f) ==
    /\ phase = "files"
    /\ f \notin Extracted
    /\ SetRunState(generate_file_result_from_analysis(RunState, f, src[f]))
    /\ phase' = IF error' = NoError THEN "files" ELSE "failed"
    /\ UNCHANGED <<src, UnitVars>>

GenerateEntityResults ==
    /\ phase = "files"
    /\ SetRunState(generate_entity_results_from_analysis(RunState, src))
    /\ phase' = IF error' = NoError THEN "done" ELSE "failed"
    /\ UNCHANGED <<src, UnitVars>>

Next ==
    \/ \E f \in FileIds : GenerateFileResult(f)
    \/ GenerateEntityResults

Spec == Init /\ [][Next]_vars


-----------------------------------------------------------------------------
(* Claims about the analysis run                                           *)

Entities == {results[k] : k \in {h \in 1..Len(results) : IsEntity(results[h])}}

\* C2: after the type usage pass no Entity Record has its own result-table
\* key (its unique name) on its dependency list, module-qualified unique
\* names included.
C2_NoOwnKeyDependency ==
    phase = "done" => \A e \in Entities : ~Contains(e.deps, e.unique_name)

\* C3: every Entity Record of the result table has unique name
\* module_name "." entity_name when its module name is not empty and
\* entity_name alone otherwise, the file-level entity of a class_name
\* declaration included; so two entities with the same module and local name
\* have the same unique name.
C3_UniqueNameFormula ==
    \A e \in Entities :
        e.unique_name = IF e.module_name # <<>>
                        THEN e.module_name \o DOT \o e.entity_name
                        ELSE e.entity_name

\* C4: the result table is append-only with unique keys: every record that
\* was inserted under a key is still the record bound to that key.
C4_NoRecordReplaced ==
    \A p \in published :
        p[1] \in Keys(results) /\ Lookup(results, p[1]).rid = p[2]

\* the parent names recorded for an Entity Record before linking: the
\* extends name of the identity scan for a file-level entity, the names
\* _add_inheritance_to_entity_result finds for an entity of a scope
RecordedParents(e) ==
    IF e.rid[2] = 1 THEN <<IdentityScan(e.scanned_tokens).extends>>
    ELSE _add_inheritance_to_entity_result(e.scanned_tokens,
             [inh |-> <<>>, hits |-> 0, misses |-> 0]).inh

\* the other entities of e's file that have local name p
Siblings(e, p) ==
    {e2 \in Entities : e2.rid[1] = e.rid[1] /\ e2.rid # e.rid /\ e2.entity_name = p}

\* C5: after generate_entity_results_from_analysis every stored parent of
\* every Entity Record of a file, the file-level entity included, is the
\* unique name of the other entity of the same file that has the recorded
\* parent name as its local name, and the bare recorded name when there is
\* no such entity.
C5_ParentsLinkedWithinFile ==
    phase = "done" =>
        \A e \in Entities : \A i \in 1..Len(e.inh) :
            /\ \A e2 \in Siblings(e, RecordedParents(e)[i]) :
                   e.inh[i] = e2.unique_name
            /\ Siblings(e, RecordedParents(e)[i]) = {} =>
                   e.inh[i] = RecordedParents(e)[i]

\* the files of the scenario: class_name Foo and extends Bar; class_name Bar
DeclaresFooExtendsBar(c) ==
    /\ c.scopes = <<>>
    /\ IdentityScan(c.pre).class_name = tFoo
    /\ IdentityScan(c.pre).extends = tBar

DeclaresOnlyBar(c) ==
    /\ c.scopes = <<>>
    /\ IdentityScan(c.pre).class_name = tBar
    /\ IdentityScan(c.pre).extends = <<>>

\* C6: with a.gd declaring class_name Foo and extends Bar and b.gd declaring
\* only class_name Bar, both extracted in either order and the entity
\* results generated, the table holds an Entity Record for Foo with a parent
\* that is the key of the Entity Record for Bar.
C6_FooInheritsBarRecord ==
    \A a, b \in FileIds :
        ( /\ phase = "done"
          /\ {a, b} \subseteq Extracted
          /\ DeclaresFooExtendsBar(src[a])
          /\ DeclaresOnlyBar(src[b]) )
        => \E e \in Entities : \E i \in 1..Len(e.inh) :
               /\ e.entity_name = tFoo
               /\ e.inh[i] \in Keys(results)
               /\ IsEntity(Lookup(results, e.inh[i]))
               /\ Lookup(results, e.inh[i]).entity_name = tBar


-----------------------------------------------------------------------------
(* Unit specifications: one operation applied to inputs drawn from bounded *)
(* sets, the analysis run left idle                                        *)

IdleRun ==
    /\ src = [f \in FileIds |-> [pre |-> <<>>, scopes |-> <<>>]]
    /\ results = <<>>
    /\ published = {}
    /\ hits = 0
    /\ misses = 0
    /\ error = NoError

\* the token streams of at most n tokens over an alphabet
TokenStreams(alphabet, n) == UNION {[1..k -> alphabet] : k \in 0..n}

-----------------------------------------------------------------------------
(* SpecTypes: _detect_type_usages run repeatedly on one Entity Record      *)

MaxTokens == 4
MaxRuns == 2

TypeTokens == {OPEN_SCOPE, tAssign, tLParen, tFoo, tBarNew}

InitTypes ==
    /\ IdleRun
    /\ phase = "types"
    /\ ent \in [entity_name : {tFoo, tInner},
                tokens : TokenStreams(TypeTokens, MaxTokens),
                given : {<<>>, <<tBar>>}]
    /\ known \in SUBSET {tFoo, tBar}
    /\ snap = <<>>
    /\ cursor = 0 /\ anchors = <<>>
    /\ ref = Unused /\ resolved = Unused /\ scene = <<>>

\* the entity's scanned_import_dependencies before the next run
CurrentDeps == IF snap = <<>> THEN ent.given ELSE snap[Len(snap)]

RanDetect(r) ==
    /\ snap' = Append(snap, r.deps)
    /\ error' = r.error

DetectTypeUsages ==
    /\ phase = "types"
    /\ Len(snap) < MaxRuns
    /\ RanDetect(_detect_type_usages(ent.tokens, CurrentDeps, known, ent.entity_name))
    /\ UNCHANGED <<src, results, published, phase, hits, misses, ent, known,
                   cursor, anchors, ref, resolved, scene>>

NextTypes == DetectTypeUsages

SpecTypes == InitTypes /\ [][NextTypes]_vars

\* C1: a second run of _detect_type_usages on an entity leaves its dependency
\* list identical to the list after the first run, and no name the pass has
\* appended to the list occurs in it more than once, however often the
\* annotation is repeated in the tokens.
C1_TypeUsageIdempotent ==
    phase = "types" =>
        /\ \A i \in 2..Len(snap) : snap[i] = snap[1]
        /\ \A i \in 1..Len(snap) :
               \A j \in (Len(ent.given) + 1)..Len(snap[i]) :
                   Count(snap[i], snap[i][j]) = 1

\* two runs over `: Foo : Foo` with Foo a known entity other than the entity
C1_RepeatedAnnotationTwice ==
    /\ phase = "types"
    /\ Len(snap) = 2
    /\ ent.tokens = <<OPEN_SCOPE, tFoo, OPEN_SCOPE, tFoo>>
    /\ ent.given = <<tBar>>
    /\ snap[1] = <<tBar, tFoo>>
    /\ snap[2] = <<tBar, tFoo>>

Markers == {OPEN_SCOPE, tArrow, tAssign}

\* token i is a marker and token i + 1 is exactly the key of a known entity
\* other than the entity
KnownAfterMarker(i) ==
    /\ ent.tokens[i] \in Markers
    /\ ent.tokens[i + 1] \in known
    /\ ent.tokens[i + 1] # ent.entity_name

\* C13: after a run of _detect_type_usages that ended without an error, every
\* token that is exactly the key of another known entity and directly follows
\* an occurrence of a marker (`:`, `->` or `=`) is in the entity's dependency
\* list, whatever precedes the marker.
C13_EveryMarkerAttempted ==
    (phase = "types" /\ snap # <<>> /\ error = NoError) =>
        \A i \in 1..(Len(ent.tokens) - 1) :
            KnownAfterMarker(i) => Contains(snap[1], ent.tokens[i + 1])

-----------------------------------------------------------------------------
(* SpecClass: the loop of _add_inheritance_to_entity_result, one token a   *)
(* step                                                                    *)

MaxClassTokens == 4

tA == <<"A">>
tB == <<"B">>

ClassTokens == {kwClass, tA, kwExtends, tB, OPEN_SCOPE, kwFunc}

InitClass ==
    /\ IdleRun
    /\ phase = "class"
    /\ ent \in [entity_name : {tA},
                tokens : TokenStreams(ClassTokens, MaxClassTokens),
                inh : {<<>>}]
    /\ cursor = 1
    /\ anchors = <<>>
    /\ known = {} /\ snap = <<>>
    /\ ref = Unused /\ resolved = Unused /\ scene = <<>>

ScanState == [inh |-> ent.inh, hits |-> hits, misses |-> misses]

SetScanState(st) ==
    /\ ent' = [ent EXCEPT !.inh = st.inh]
    /\ hits' = st.hits
    /\ misses' = st.misses

\* the iteration of the for loop at a `class` token
ScanClassAnchor ==
    /\ phase = "class"
    /\ cursor <= Len(ent.tokens)
    /\ ent.tokens[cursor] = kwClass
    /\ SetScanState(InheritanceAt(ent.tokens, cursor, ScanState))
    /\ anchors' = Append(anchors, cursor)
    /\ cursor' = cursor + 1
    /\ UNCHANGED <<src, results, published, phase, error, known, snap, ref,
                   resolved, scene>>

\* the iteration of the for loop at any other token
ScanOtherToken ==
    /\ phase = "class"
    /\ cursor <= Len(ent.tokens)
    /\ ent.tokens[cursor] # kwClass
    /\ SetScanState(InheritanceAt(ent.tokens, cursor, ScanState))
    /\ cursor' = cursor + 1
    /\ UNCHANGED <<src, results, published, phase, error, known, snap, anchors,
                   ref, resolved, scene>>

NextClass == ScanClassAnchor \/ ScanOtherToken

SpecClass == InitClass /\ [][NextClass]_vars

\* a `class` anchor at token i with an invalid header: its window does not
\* match the class-header grammar, or `class` is followed immediately by a
\* body-start keyword instead of an identifier
InvalidClassHeader(tokens, i) ==
    \/ ~ClassHeader(ReadAhead(tokens, i)).ok
    \/ (i < Len(tokens) /\ tokens[i + 1] \in BodyStart)

ParseExceptionIsAMiss ==
    [][ ( /\ phase = "class"
          /\ cursor <= Len(ent.tokens)
          /\ ent.tokens[cursor] = kwClass
          /\ ~ClassHeader(ReadAhead(ent.tokens, cursor)).ok )
        => ( /\ misses' = misses + 1
             /\ hits' = hits
             /\ ent'.inh = ent.inh
             /\ error' = NoError
             /\ cursor' = cursor + 1 ) ]_vars

\* C10: when the scan of a token stream is over, hit increments plus miss
\* increments equal the number of `class` anchors of the stream.
C10_EveryAnchorCounted ==
    (phase = "class" /\ cursor > Len(ent.tokens))
        => hits + misses = Count(ent.tokens, kwClass)

-----------------------------------------------------------------------------
(* SpecPath: one root-relative and one file-relative reference resolved by *)
(* _parse_loads and by _extract_objects                                    *)

tThing == <<"t", "h", "i", "n", "g", ".", "g", "d">>
tSubThing == <<"s", "u", "b", "/", "t", "h", "i", "n", "g", ".", "g", "d">>
tDeepThing == <<"s", "u", "b", "/", "d", "e", "e", "p", "/", "t", "h", "i", "n", "g", ".", "g", "d">>
tUpThing == <<".", ".", "/", "t", "h", "i", "n", "g", ".", "g", "d">>
tOther == <<"o", "t", "h", "e", "r", ".", "g", "d">>
tSubOther == <<"s", "u", "b", "/", "o", "t", "h", "e", "r", ".", "g", "d">>
tDeepOther == <<"s", "u", "b", "/", "d", "e", "e", "p", "/", "o", "t", "h", "e", "r", ".", "g", "d">>
tGame == <<"/", "s", "r", "v", "/", "g", "a", "m", "e">>
tSlash == <<"/">>
tRes == <<"r", "e", "s">>
tSlashes == <<"/", "/">>

\* the name of the root directory: the last part of its path
RootName(root) == Path(root).parts[Len(Path(root).parts)]

\* the path under which the analysis passes a file found at `where` under
\* the root: relative to the parent of the root, or absolute
FullFilePath(root, where, absolute) ==
    IF absolute THEN root \o tSlash \o where
    ELSE RootName(root) \o tSlash \o where

RefFile == FullFilePath(ref.root, ref.where, ref.absolute)

\* var a = load("res://<rooted>") var b = preload("<relative>")
LoadTokens(rooted, relative) ==
    <<kwVar, tA, tAssign, kwLoad, tLParen, tQuote, tRes, OPEN_SCOPE,
      tSlashes \o rooted, tQuote, tRParen,
      kwVar, tB, tAssign, kwPreload, tLParen, tQuote, relative, tQuote, tRParen>>

tTypeIs == <<"t", "y", "p", "e", "=">>
tPathIs == <<"p", "a", "t", "h", "=">>
tIdIs == <<"i", "d", "=">>
tUidIs == <<"u", "i", "d", "=">>
tOne == <<"1">>
tTwo == <<"2">>

\* [ext_resource type="<type>" path="<path>" id="<id>"], path with or
\* without the res:// marker
ExtResourceTokens(type, res, path, id) ==
    <<tLBrack, kwExtResource, tTypeIs, tQuote, type, tQuote, tPathIs, tQuote>>
    \o (IF res THEN <<tRes, OPEN_SCOPE, tSlashes \o path>> ELSE <<path>>)
    \o <<tQuote, tIdIs, tQuote, id, tQuote, tRBrack>>

SceneRefTokens(rooted, relative) ==
    ExtResourceTokens(SCRIPT_TYPE, TRUE, rooted, tOne)
    \o ExtResourceTokens(SCRIPT_TYPE, FALSE, relative, tTwo)

NotResolved == [load |-> <<>>, ext |-> <<>>]

InitPath ==
    /\ IdleRun
    /\ phase = "paths"
    /\ ref \in [root : {source_directory, tGame},
                rooted : {tThing, tSubThing, tDeepThing},
                relative : {tThing, tSubThing, tUpThing},
                where : {tOther, tSubOther, tDeepOther},
                absolute : BOOLEAN]
    /\ resolved = NotResolved
    /\ ent = Unused /\ known = {} /\ snap = <<>> /\ cursor = 0 /\ anchors = <<>>
    /\ scene = <<>>

ResolvedLoads(r) ==
    /\ resolved' = [resolved EXCEPT !.load = r.deps]
    /\ error' = r.error

ResolveLoads ==
    /\ phase = "paths"
    /\ resolved.load = <<>>
    /\ ResolvedLoads(_parse_loads(LoadTokens(ref.rooted, ref.relative), RefFile,
                                  ref.root))
    /\ UNCHANGED <<src, results, published, phase, hits, misses, ent, known,
                   snap, cursor, anchors, ref, scene>>

ResolvedExtResources(o) ==
    /\ resolved' = [resolved EXCEPT
                       !.ext = _add_dependencies_to_result(<<>>, o.objects)]
    /\ error' = o.error

ResolveExtResources ==
    /\ phase = "paths"
    /\ resolved.ext = <<>>
    /\ ResolvedExtResources(_extract_objects(
           SceneRefTokens(ref.rooted, ref.relative), RefFile, ref.root))
    /\ UNCHANGED <<src, results, published, phase, hits, misses, ent, known,
                   snap, cursor, anchors, ref, scene>>

NextPath == ResolveLoads \/ ResolveExtResources

SpecPath == InitPath /\ [][NextPath]_vars

\* the two dependency strings a resolver has computed are the same
SameString(deps) == Len(deps) = 2 /\ deps[1] = deps[2]

\* the root-relative literal names the file that the file-relative literal
\* names from the directory of the referring file
NamesSameFile ==
    Path(ref.rooted).parts
        = PathParent(Path(ref.where)).parts \o Path(ref.relative).parts

\* C7 as stated: with the referring file at P/sub/other.gd, res://sub/thing.gd
\* and the file-relative literal sub/thing.gd resolve to the same dependency
\* string, in _parse_loads and in _extract_objects.
C7_RoundTripAsStated ==
    ( /\ phase = "paths"
      /\ ref.where = tSubOther
      /\ ref.rooted = tSubThing
      /\ ref.relative = tSubThing )
    => /\ resolved.load # <<>> => SameString(resolved.load)
       /\ resolved.ext # <<>> => SameString(resolved.ext)

\* C7 amended: with the path of the referring file passed relative to the
\* parent of P, a root-relative literal and a file-relative literal resolve
\* to the same dependency string, in _parse_loads and in _extract_objects,
\* exactly when the root-relative literal is the directory of the referring
\* file under P followed by the file-relative literal: res://sub/thing.gd
\* and thing.gd from P/sub/other.gd, res://sub/thing.gd and sub/thing.gd
\* from P/other.gd.
C7_RoundTripFromFileDirectory ==
    (phase = "paths" /\ ~ref.absolute)
    => /\ resolved.load # <<>> => (SameString(resolved.load) <=> NamesSameFile)
       /\ resolved.ext # <<>> => (SameString(resolved.ext) <=> NamesSameFile)

\* P = /home/u/proj, the file proj/sub/other.gd, res://sub/thing.gd and
\* thing.gd, resolved by both resolvers to proj/sub/thing.gd
C7_BothResolveToSameString ==
    /\ phase = "paths"
    /\ ref.root = source_directory
    /\ ref.where = tSubOther /\ ~ref.absolute
    /\ ref.rooted = tSubThing /\ ref.relative = tThing
    /\ resolved.load = <<<<"p", "r", "o", "j", "/", "s", "u", "b", "/", "t", "h", "i", "n", "g", ".", "g", "d">>, <<"p", "r", "o", "j", "/", "s", "u", "b", "/", "t", "h", "i", "n", "g", ".", "g", "d">>>>
    /\ resolved.ext = <<<<"p", "r", "o", "j", "/", "s", "u", "b", "/", "t", "h", "i", "n", "g", ".", "g", "d">>, <<"p", "r", "o", "j", "/", "s", "u", "b", "/", "t", "h", "i", "n", "g", ".", "g", "d">>>>

-----------------------------------------------------------------------------
(* SpecScene: GodotTSCNParser.generate_file_result_from_analysis on a      *)
(* scene file written from bracketed objects                               *)

MaxBlocks == 2

tPlayer == <<"p", "l", "a", "y", "e", "r", ".", "g", "d">>
tLevel == <<"s", "u", "b", "/", "l", "e", "v", "e", "l", ".", "t", "s", "c", "n">>
tIcon == <<"i", "c", "o", "n", ".", "p", "n", "g">>
tEnemy == <<"e", "n", "e", "m", "y", ".", "g", "d">>
tTexture == <<"T", "e", "x", "t", "u", "r", "e", "2", "D">>
tNameIs == <<"n", "a", "m", "e", "=">>
tMain == <<"p", "r", "o", "j", "/", "m", "a", "i", "n", ".", "t", "s", "c", "n">>
tSubScene == <<"p", "r", "o", "j", "/", "s", "u", "b", "/", "l", ".", "t", "s", "c", "n">>
tUidValue == <<"/", "/", "b", "3", "x">>

ExtBlock(type, res, path, uid, id) ==
    [kind |-> "ext_resource", type |-> type, res |-> res, path |-> path,
     uid |-> uid, id |-> id]

ScriptPlayer == ExtBlock(SCRIPT_TYPE, TRUE, tPlayer, FALSE, TRUE)

Blocks ==
    { ScriptPlayer,
      ExtBlock(PACKED_SCENE_TYPE, TRUE, tLevel, TRUE, TRUE),
      ExtBlock(tTexture, TRUE, tIcon, FALSE, TRUE),
      ExtBlock(SCRIPT_TYPE, FALSE, tEnemy, FALSE, TRUE),
      ExtBlock(SCRIPT_TYPE, TRUE, tPlayer, FALSE, FALSE),
      [kind |-> "node"],
      [kind |-> "sub_resource"],
      [kind |-> "open"] }

\* uid="uid://b3x"
UidTokens == <<tUidIs, tQuote, kwUid, OPEN_SCOPE, tUidValue, tQuote>>

\* the tokens of a block; an ext_resource without id is not well formed,
\* "open" is a lone [
BlockTokens(b) ==
    IF b.kind = "node"
    THEN <<tLBrack, kwNode, tNameIs, tQuote, tA, tQuote, tTypeIs, tQuote, tB,
           tQuote, tRBrack>>
    ELSE IF b.kind = "sub_resource"
    THEN <<tLBrack, kwSubResource, tTypeIs, tQuote, SCRIPT_TYPE, tQuote, tIdIs,
           tQuote, tOne, tQuote, tRBrack>>
    ELSE IF b.kind = "open" THEN <<tLBrack>>
    ELSE <<tLBrack, kwExtResource, tTypeIs, tQuote, b.type, tQuote>>
         \o (IF b.uid THEN UidTokens ELSE <<>>)
         \o <<tPathIs, tQuote>>
         \o (IF b.res THEN <<tRes, OPEN_SCOPE, tSlashes \o b.path>> ELSE <<b.path>>)
         \o <<tQuote>>
         \o (IF b.id THEN <<tIdIs, tQuote, tOne, tQuote>> ELSE <<>>)
         \o <<tRBrack>>

RECURSIVE SceneTokens(_)
SceneTokens(blocks) ==
    IF blocks = <<>> THEN <<>>
    ELSE BlockTokens(Head(blocks)) \o SceneTokens(Tail(blocks))

\* Path(relative_file_path_to_analysis).stem for a name with one suffix
PathStem(full_file_path) ==
    LET name == Path(full_file_path).parts[Len(Path(full_file_path).parts)]
    IN  SubSeq(name, 1, CHOOSE k \in 0..Len(name) :
                            /\ name[k + 1] = "."
                            /\ \A j \in (k + 2)..Len(name) : name[j] # ".")

SceneFileRecord(full_file_path, tokens, deps) ==
    [kind |-> "file", rid |-> <<0, 0>>, unique_name |-> full_file_path,
     module_name |-> PathStem(full_file_path), entity_name |-> <<>>,
     scanned_tokens |-> tokens, deps |-> deps, inh |-> <<>>]

\* lines 106-109: an error of _extract_objects leaves the handler before the
\* record is inserted
PublishScene(st, full_file_path, tokens, o) ==
    IF o.error # NoError THEN [st EXCEPT !.error = o.error]
    ELSE Publish(st, SceneFileRecord(full_file_path, tokens,
                         _add_dependencies_to_result(<<>>, o.objects)))

GodotTSCNParser_generate_file_result_from_analysis(st, full_file_path, tokens) ==
    PublishScene(st, full_file_path, tokens,
                 _extract_objects(tokens, full_file_path, source_directory))

InitScene ==
    /\ IdleRun
    /\ phase = "scene"
    /\ scene \in [file : {tMain, tSubScene},
                  blocks : TokenStreams(Blocks, MaxBlocks)]
    /\ ent = Unused /\ known = {} /\ snap = <<>> /\ cursor = 0 /\ anchors = <<>>
    /\ ref = Unused /\ resolved = Unused

GenerateSceneFileResult ==
    /\ phase = "scene"
    /\ SetRunState(GodotTSCNParser_generate_file_result_from_analysis(
           RunState, scene.file, SceneTokens(scene.blocks)))
    /\ phase' = IF error' = NoError THEN "scene done" ELSE "failed"
    /\ UNCHANGED <<src, UnitVars>>

NextScene == GenerateSceneFileResult

SpecScene == InitScene /\ [][NextScene]_vars

\* the blocks of a scene that are complete ext_resource blocks of type
\* Script or PackedScene
IsDependencyBlock(b) ==
    /\ b.kind = "ext_resource"
    /\ b.id
    /\ b.type \in {SCRIPT_TYPE, PACKED_SCENE_TYPE}

\* the path such a block stands for: under the root, relative to the parent
\* of the root, or in the directory of the scene file
BlockPath(b, full_file_path) ==
    IF b.res THEN RootName(source_directory) \o tSlash \o b.path
    ELSE PathStr(PathParent(Path(full_file_path))) \o tSlash \o b.path

RECURSIVE BlockPaths(_, _)
BlockPaths(blocks, full_file_path) ==
    IF blocks = <<>> THEN <<>>
    ELSE (IF IsDependencyBlock(Head(blocks))
          THEN <<BlockPath(Head(blocks), full_file_path)>> ELSE <<>>)
         \o BlockPaths(Tail(blocks), full_file_path)

\* C8: after generate_file_result_from_analysis on a scene file the File
\* Record's dependency list holds, in order of appearance, the resolved path
\* of every successfully parsed ext_resource block of type Script or
\* PackedScene and nothing else; for the block with type Script and path
\* res://player.gd the entry is proj/player.gd.
C8_SceneDependencyFilter ==
    phase = "scene done" =>
        /\ Len(results) = 1
        /\ results[1].deps = BlockPaths(scene.blocks, scene.file)
        /\ \A i \in 1..Len(scene.blocks) :
               scene.blocks[i] = ScriptPlayer
                   => Contains(results[1].deps, <<"p", "r", "o", "j", "/", "p", "l", "a", "y", "e", "r", ".", "g", "d">>)

\* a Texture2D block and the Script block of player.gd: one dependency
C8_ScriptKeptTextureDropped ==
    /\ phase = "scene done"
    /\ scene.blocks = <<ExtBlock(tTexture, TRUE, tIcon, FALSE, TRUE), ScriptPlayer>>
    /\ results[1].deps = <<<<"p", "r", "o", "j", "/", "p", "l", "a", "y", "e", "r", ".", "g", "d">>>>

-----------------------------------------------------------------------------
(* SpecEdge: each extraction operation applied once to a token stream that *)
(* ends after a marker or an anchor, or that holds a root-marked literal   *)
(* with an absolute path body                                              *)

MaxEdgeTokens == 2

tAbsolute == <<"/", "/", "/", "a", "b", "s", "/", "x", ".", "g", "d">>

EdgeTokens == {tAssign, OPEN_SCOPE, tArrow, tLBrack, kwLoad, kwClass, tFoo}

\* load("res:///abs/x.gd")
LoadAbsolute ==
    <<kwLoad, tLParen, tQuote, tRes, OPEN_SCOPE, tAbsolute, tQuote, tRParen>>

\* [ext_resource type="Script" path="res:///abs/x.gd" id="1"]
ExtResourceAbsolute ==
    <<tLBrack, kwExtResource, tTypeIs, tQuote, SCRIPT_TYPE, tQuote, tPathIs,
      tQuote, tRes, OPEN_SCOPE, tAbsolute, tQuote, tIdIs, tQuote, tOne, tQuote,
      tRBrack>>

EdgeStreams ==
    TokenStreams(EdgeTokens, MaxEdgeTokens)
        \cup { LoadAbsolute, ExtResourceAbsolute,
               <<kwPackage, tFoo, kwExtends, tBar>> \o LoadAbsolute }

InitEdge ==
    /\ IdleRun
    /\ phase = "edge"
    /\ ent \in [entity_name : {tInner}, tokens : EdgeStreams, inh : {<<>>}]
    /\ known = {tFoo}
    /\ snap = <<>>
    /\ cursor = 0 /\ anchors = <<>>
    /\ ref = Unused /\ resolved = Unused /\ scene = <<>>

\* the operation named op has run and ended with the error err
RanOperation(op, err) ==
    /\ snap' = <<op>>
    /\ error' = err
    /\ UNCHANGED <<src, results, published, phase, hits, misses, ent, known,
                   cursor, anchors, ref, resolved, scene>>

\* _add_class_name_to_result on a File Record with the tokens of ent
AddClassName ==
    /\ phase = "edge" /\ snap = <<>>
    /\ RanOperation("_add_class_name_to_result",
           PublishFileEntity(RunState, 1, ent.tokens, IdentityScan(ent.tokens),
                             _parse_loads(ent.tokens, FilePath(1),
                                          source_directory)).error)

ParseLoads ==
    /\ phase = "edge" /\ snap = <<>>
    /\ RanOperation("_parse_loads",
           _parse_loads(ent.tokens, FilePath(1), source_directory).error)

DetectEdgeTypeUsages ==
    /\ phase = "edge" /\ snap = <<>>
    /\ RanOperation("_detect_type_usages",
           _detect_type_usages(ent.tokens, <<>>, known, ent.entity_name).error)

\* _add_inheritance_to_entity_result has no statement that can raise outside
\* its try block
AddInheritance ==
    /\ phase = "edge" /\ snap = <<>>
    /\ SetScanState(_add_inheritance_to_entity_result(ent.tokens, ScanState))
    /\ snap' = <<"_add_inheritance_to_entity_result">>
    /\ error' = NoError
    /\ UNCHANGED <<src, results, published, phase, known, cursor, anchors, ref,
                   resolved, scene>>

ExtractObjects ==
    /\ phase = "edge" /\ snap = <<>>
    /\ RanOperation("_extract_objects",
           _extract_objects(ent.tokens, tMain, source_directory).error)

NextEdge ==
    \/ AddClassName
    \/ ParseLoads
    \/ DetectEdgeTypeUsages
    \/ AddInheritance
    \/ ExtractObjects

SpecEdge == InitEdge /\ [][NextEdge]_vars

\* C11: no error leaves an extraction operation, whatever the token stream:
\* not when the stream ends directly after a marker or an anchor, and not
\* when a root-marked literal cannot be re-expressed relative to the parent
\* of the source root.
C11_NoErrorEscapes == phase = "edge" => error = NoError

-----------------------------------------------------------------------------
(* SpecIdentity: the identity scan of _add_class_name_to_result on the     *)
(* tokens of one file                                                      *)

MaxIdentityTokens == 4

IdentityTokens == {kwPackage, kwExtends, tFoo, tBar, kwVar}

InitIdentity ==
    /\ IdleRun
    /\ phase = "identity"
    /\ ent \in [tokens : TokenStreams(IdentityTokens, MaxIdentityTokens)]
    /\ snap = <<>>
    /\ known = {} /\ cursor = 0 /\ anchors = <<>>
    /\ ref = Unused /\ resolved = Unused /\ scene = <<>>

\* lines 112-141: snap gets the module name, the dependency list and the
\* stopping point the scan ends with
ScanIdentity ==
    /\ phase = "identity"
    /\ snap = <<>>
    /\ snap' = <<IdentityScan(ent.tokens)>>
    /\ UNCHANGED <<src, results, published, phase, hits, misses, error, ent,
                   known, cursor, anchors, ref, resolved, scene>>

NextIdentity == ScanIdentity

SpecIdentity == InitIdentity /\ [][NextIdentity]_vars

\* token i is a declaration that parses: the keyword kw followed by a name
DeclaredAt(tokens, i, kw) ==
    tokens[i] = kw /\ KeywordName(ReadAhead(tokens, i), kw) # <<>>

\* the stopping point: the first token that is a body-start keyword or at
\* which a class_name and an extends declaration have both been parsed
IsStoppingPoint(tokens, i) ==
    \/ tokens[i] \in BodyStart
    \/ /\ \E h \in 1..i : DeclaredAt(tokens, h, kwPackage)
       /\ \E h \in 1..i : DeclaredAt(tokens, h, kwExtends)

StoppingPoint(tokens) ==
    IF \E i \in 1..Len(tokens) : IsStoppingPoint(tokens, i)
    THEN CHOOSE i \in 1..Len(tokens) :
             /\ IsStoppingPoint(tokens, i)
             /\ \A h \in 1..(i - 1) : ~IsStoppingPoint(tokens, h)
    ELSE Len(tokens) + 1

\* the tokens up to the stopping point, with the name its declaration reads
UpToStop(tokens, stop) ==
    SubSeq(tokens, 1, IF stop + 1 <= Len(tokens) THEN stop + 1 ELSE Len(tokens))

\* the scan ends at the stopping point, and its module name and dependency
\* list are those of the tokens up to that point
StopsAtStoppingPoint ==
    (phase = "identity" /\ snap # <<>>) =>
        /\ snap[1].stop = StoppingPoint(ent.tokens)
        /\ snap[1].module_name
               = IdentityScan(UpToStop(ent.tokens, snap[1].stop)).module_name
        /\ snap[1].deps = IdentityScan(UpToStop(ent.tokens, snap[1].stop)).deps

\* C12: the identity scan appends at most one extends name to the File
\* Record's dependency list, it stops at the first token at which class_name
\* and extends have both been parsed or that is a body-start keyword, and no
\* class_name or extends token after that point changes the module name or
\* the dependency list.
C12_SingleInheritanceDeclaration ==
    (phase = "identity" /\ snap # <<>>) =>
        /\ Len(snap[1].deps) <= 1
        /\ StopsAtStoppingPoint

-----------------------------------------------------------------------------
(* SpecFile: generate_file_result_from_analysis on files that declare      *)
(* class_name and extends in every combination, with and without loads     *)

\* what stands before the first var of a file
IdentityHeads ==
    { <<>>,
      <<kwPackage, tFoo, tNewline, kwExtends, tBar, tNewline>>,
      <<kwExtends, tNode, tNewline, kwPackage, tBar, tNewline>>,
      <<kwPackage, tFoo, tNewline>>,
      <<kwExtends, tNode, tNewline>>,
      <<kwPackage, tFoo, tNewline, kwVar, tT, tNewline, kwExtends, tBar, tNewline>> }

FileCases ==
    [pre : {head \o LoadTokens(tSubThing, tThing) : head \in IdentityHeads}
               \cup {<<kwPackage, tFoo, kwExtends, tBar>> \o LoadAbsolute},
     scopes : {<<>>}]

InitFile ==
    /\ src \in [FileIds -> FileCases]
    /\ results = <<>>
    /\ published = {}
    /\ phase = "files"
    /\ hits = 0
    /\ misses = 0
    /\ error = NoError
    /\ ent = Unused /\ known = {} /\ snap = <<>> /\ cursor = 0 /\ anchors = <<>>
    /\ ref = Unused /\ resolved = Unused /\ scene = <<>>

NextFile == \E f \in FileIds : GenerateFileResult(f)

SpecFile == InitFile /\ [][NextFile]_vars

\* a class_name and an extends declaration both parse at or before token
\* stop
DeclaredBothUpTo(tokens, stop) ==
    /\ \E i \in 1..Len(tokens) : i <= stop /\ DeclaredAt(tokens, i, kwPackage)
    /\ \E i \in 1..Len(tokens) : i <= stop /\ DeclaredAt(tokens, i, kwExtends)

ParsedBoth(tokens) == DeclaredBothUpTo(tokens, StoppingPoint(tokens))

HasRecord(f, part) == \E k \in 1..Len(results) : results[k].rid = <<f, part>>
WasPublished(f, part) == \E p \in published : p[2] = <<f, part>>

\* the token after an extends token
IsExtendsName(tokens, name) ==
    \E i \in 1..(Len(tokens) - 1) : tokens[i] = kwExtends /\ tokens[i + 1] = name

\* the File Record holds extends names and none of the resolved references
HoldsExtendsNamesOnly(deps, tokens, loads) ==
    /\ \A j \in 1..Len(deps) : IsExtendsName(tokens, deps[j])
    /\ \A j \in 1..Len(loads) : ~Contains(deps, loads[j])

RecordsAgree(f, tokens, loads, both) ==
    /\ WasPublished(f, 1) <=> both
    /\ \A k \in 1..Len(results) :
           /\ results[k].rid = <<f, 1>> => results[k].deps = loads
           /\ results[k].rid = <<f, 0>> =>
                  HoldsExtendsNamesOnly(results[k].deps, tokens, loads)

\* the records of file f once its handler has inserted the File Record
RecordsAsDeclared(f) ==
    RecordsAgree(f, FileTokens(src[f]),
                 _parse_loads(FileTokens(src[f]), FilePath(f), source_directory).deps,
                 ParsedBoth(FileTokens(src[f])))

FileRecordsAsDeclared ==
    \A f \in FileIds : HasRecord(f, 0) => RecordsAsDeclared(f)

\* a handler that ends without an error has inserted the File Record
EveryFileYieldsARecord ==
    \A f \in FileIds :
        (GenerateFileResult(f) /\ error' = NoError) => HasRecord(f, 0)'

\* C14: a GDScript file whose handler ends without an error has a File
\* Record; its file-level Entity Record is published if and only if the
\* identity scan parsed both a class_name and an extends declaration before it
\* stopped; the resolved load and preload references are the dependency list
\* of that Entity Record, and the File Record's dependency list holds extends
\* names only and none of the resolved references.
C14_FileEntityIffBothDeclared ==
    []FileRecordsAsDeclared /\ [][EveryFileYieldsARecord]_vars

\* file 1 declares both and loads two files, file 2 declares class_name only
\* and loads the same two: file 1 has both records, file 2 the File Record
C14_BothDeclaredWithLoads ==
    /\ src[1].pre = <<kwPackage, tFoo, tNewline, kwExtends, tBar, tNewline>>
                        \o LoadTokens(tSubThing, tThing)
    /\ src[2].pre = <<kwPackage, tFoo, tNewline>> \o LoadTokens(tSubThing, tThing)
    /\ error = NoError
    /\ HasRecord(1, 0) /\ HasRecord(2, 0)
    /\ WasPublished(1, 1) /\ ~WasPublished(2, 1)
    /\ \E k \in 1..Len(results) :
           /\ results[k].rid = <<1, 1>>
           /\ results[k].deps = <<<<"p", "r", "o", "j", "/", "s", "u", "b", "/", "t", "h", "i", "n", "g", ".", "g", "d">>, <<"p", "r", "o", "j", "/", "t", "h", "i", "n", "g", ".", "g", "d">>>>
    /\ \E k \in 1..Len(results) :
           results[k].rid = <<1, 0>> /\ results[k].deps = <<tBar>>
    /\ \E k \in 1..Len(results) :
           results[k].rid = <<2, 0>> /\ results[k].deps = <<>>

====
